---------------------------- MODULE Spec2Model ----------------------------
(***************************************************************************)
(* Token Counter Service (rust-token-counter/src/main.rs).                 *)
(*                                                                         *)
(* The service is a stateless request/response server.  The model keeps    *)
(* the request being handled, the response produced for it, and the number *)
(* of calculate_cost invocations made while handling it.                   *)
(*                                                                         *)
(* Representation of values:                                               *)
(*  - a text (&str / String) is the sequence of its Unicode scalar values; *)
(*    its storage size is the sum of the UTF-8 lengths of its characters;  *)
(*  - Option<T> is <<>> (None) or <<x>> (Some(x));                         *)
(*  - the f64 arithmetic of estimate_tokens is IEEE-754 binary64 with      *)
(*    round-to-nearest-even, carried out on exact dyadic numbers m * 2^e   *)
(*    whose mantissa m is a natural number held in 15-bit limbs (TLC's     *)
(*    integers are 32 bits wide);                                          *)
(*  - a price is held in units of 10^-6 USD per 1000 tokens and an amount  *)
(*    in units of 10^-9 USD, so that (tokens / 1000) * rate is the product *)
(*    tokens * rate.  Every rate of the table is a multiple of 10^-8 USD   *)
(*    per token; for all u32 token counts the f64 value handed to round()  *)
(*    is within 2^-3 of the exact integer number of 10^-8 USD, and the     *)
(*    final division by 10^8 is correctly rounded, so the f64 returned by  *)
(*    calculate_cost is the double nearest to the amount computed here.    *)
(*  - token counts are u32 and char counts usize; the counts that occur    *)
(*    here stay far below 2^30, so no cast saturates and no sum wraps.     *)
(***************************************************************************)
EXTENDS Integers, Sequences, FiniteSets, TLC

VARIABLES pc, req, resp, cost_calls

vars == <<pc, req, resp, cost_calls>>

-----------------------------------------------------------------------------
(* Natural numbers of arbitrary size: little-endian sequences of limbs in   *)
(* 0 .. LimbBase-1 without leading (high) zero limbs; <<>> is zero.         *)

LimbBits == 15

LimbBase == 32768

RECURSIVE Pow2(_)
Pow2(k) == IF k = 0 THEN 1 ELSE 2 * Pow2(k - 1)

RECURSIVE Trim(_)
Trim(a) ==
    IF a = <<>> THEN <<>>
    ELSE IF a[Len(a)] = 0 THEN Trim(SubSeq(a, 1, Len(a) - 1))
    ELSE a

RECURSIVE FromNat(_)
FromNat(i) == IF i = 0 THEN <<>> ELSE <<i % LimbBase>> \o FromNat(i \div LimbBase)

RECURSIVE ToNat(_)
ToNat(a) == IF a = <<>> THEN 0 ELSE Head(a) + LimbBase * ToNat(Tail(a))

RECURSIVE AddCarry(_, _, _)
AddCarry(a, b, c) ==
    IF a = <<>> /\ b = <<>> THEN (IF c = 0 THEN <<>> ELSE <<c>>)
    ELSE LET x == IF a = <<>> THEN 0 ELSE Head(a)
             y == IF b = <<>> THEN 0 ELSE Head(b)
             s == x + y + c
         IN  <<s % LimbBase>>
               \o AddCarry(IF a = <<>> THEN <<>> ELSE Tail(a),
                           IF b = <<>> THEN <<>> ELSE Tail(b),
                           s \div LimbBase)

BigAdd(a, b) == AddCarry(a, b, 0)

RECURSIVE MulCarry(_, _, _)
MulCarry(a, s, c) ==
    IF a = <<>> THEN (IF c = 0 THEN <<>> ELSE <<c>>)
    ELSE LET p == Head(a) * s + c
         IN  <<p % LimbBase>> \o MulCarry(Tail(a), s, p \div LimbBase)

(* a * s for 0 <= s < LimbBase *)
BigMulSmall(a, s) == Trim(MulCarry(a, s, 0))

ShiftLimbs(a, j) == IF a = <<>> THEN <<>> ELSE [i \in 1..j |-> 0] \o a

RECURSIVE BigMul(_, _)
BigMul(a, b) ==
    IF b = <<>> \/ a = <<>> THEN <<>>
    ELSE BigAdd(BigMulSmall(a, Head(b)), ShiftLimbs(BigMul(a, Tail(b)), 1))

(* a * 2^k *)
ShiftLeft(a, k) ==
    ShiftLimbs(BigMulSmall(a, Pow2(k % LimbBits)), k \div LimbBits)

RECURSIVE BitLenSmall(_)
BitLenSmall(x) == IF x = 0 THEN 0 ELSE 1 + BitLenSmall(x \div 2)

BitLen(a) ==
    IF a = <<>> THEN 0 ELSE LimbBits * (Len(a) - 1) + BitLenSmall(a[Len(a)])

Limb(a, i) == IF i <= Len(a) THEN a[i] ELSE 0

(* floor(a / 2^k) *)
ShiftRight(a, k) ==
    LET j == k \div LimbBits
        t == k % LimbBits
        n == IF Len(a) > j THEN Len(a) - j ELSE 0
    IN  Trim([i \in 1..n |->
                (Limb(a, j + i) \div Pow2(t))
                  + (Limb(a, j + i + 1) % Pow2(t)) * Pow2(LimbBits - t)])

(* bit i (from 0) of a *)
Bit(a, i) == (Limb(a, i \div LimbBits + 1) \div Pow2(i % LimbBits)) % 2

(* some bit of a below position i is set: a mod 2^i # 0 *)
Sticky(a, i) ==
    \/ \E l \in 1..(i \div LimbBits) : Limb(a, l) # 0
    \/ Limb(a, i \div LimbBits + 1) % Pow2(i % LimbBits) # 0

(* a / 2^k rounded to the nearest integer, ties to even *)
RoundShift(a, k) ==
    LET q == ShiftRight(a, k)
        up == /\ k > 0
              /\ Bit(a, k - 1) = 1
              /\ (Sticky(a, k - 1) \/ Bit(q, 0) = 1)
    IN  IF up THEN BigAdd(q, <<1>>) ELSE q

-----------------------------------------------------------------------------
(* f64 values that occur in estimate_tokens: finite, non-negative, normal.  *)
(* [m, e] stands for m * 2^e.                                               *)

MantissaBits == 53

(* the binary64 nearest to m * 2^e (ties to even) *)
RoundF64(m, e) ==
    LET l == BitLen(m)
    IN  IF l <= MantissaBits THEN [m |-> m, e |-> e]
        ELSE [m |-> RoundShift(m, l - MantissaBits), e |-> e + (l - MantissaBits)]

(* usize as f64, exact below 2^53 *)
F64FromNat(i) == [m |-> FromNat(i), e |-> 0]

(* the fractional limbs of r / d, most significant first, and the final    *)
(* remainder; r < d < 2^16                                                  *)
RECURSIVE FracLimbs(_, _, _)
FracLimbs(r, d, k) ==
    IF k = 0 THEN [q |-> <<>>, r |-> r]
    ELSE LET rest == FracLimbs((r * LimbBase) % d, d, k - 1)
         IN  [q |-> rest.q \o <<(r * LimbBase) \div d>>, r |-> rest.r]

DivLimbs == 5

(* a as f64 / b as f64 for naturals a, b with 0 < b < 2^16 and a < 2^30:   *)
(* the quotient is developed to DivLimbs limbs after the point (at least   *)
(* 59 significant bits when a > 0) and a sticky bit stands for the rest.   *)
F64DivNat(a, b) ==
    LET f == FracLimbs(a % b, b, DivLimbs)
        q == Trim(f.q \o FromNat(a \div b))
        m == BigAdd(BigMulSmall(q, 2), IF f.r = 0 THEN <<>> ELSE <<1>>)
    IN  RoundF64(m, -(LimbBits * DivLimbs + 1))

F64Mul(x, y) == RoundF64(BigMul(x.m, y.m), x.e + y.e)

F64Add(x, y) ==
    LET e == IF x.e < y.e THEN x.e ELSE y.e
    IN  RoundF64(BigAdd(ShiftLeft(x.m, x.e - e), ShiftLeft(y.m, y.e - e)), e)

(* f64::ceil followed by `as u32` (no saturation below 2^30) *)
F64CeilToNat(x) ==
    IF x.e >= 0 THEN ToNat(ShiftLeft(x.m, x.e))
    ELSE ToNat(ShiftRight(x.m, -x.e)) + (IF Sticky(x.m, -x.e) THEN 1 ELSE 0)

(* the literal 0.1: 7205759403792794 * 2^-56 *)
F64Tenth == [m |-> <<6554, 13107, 26214, 204>>, e |-> -56]

(* the literal 1.0 *)
F64One == [m |-> <<1>>, e |-> 0]

-----------------------------------------------------------------------------
(* Option<T> *)

None == <<>>

Some(x) == <<x>>

IsSome(o) == o # <<>>

Unwrap(o) == o[1]

-----------------------------------------------------------------------------
(* Text: &str as the sequence of its chars (Unicode scalar values).         *)

(* the UTF-8 length of a char *)
Utf8Len(c) == IF c < 128 THEN 1 ELSE IF c < 2048 THEN 2 ELSE IF c < 65536 THEN 3 ELSE 4

(* str::len: the number of bytes (summed by halves) *)
RECURSIVE str_len(_)
str_len(text) ==
    IF Len(text) = 0 THEN 0
    ELSE IF Len(text) = 1 THEN Utf8Len(text[1])
    ELSE LET h == Len(text) \div 2
         IN  str_len(SubSeq(text, 1, h)) + str_len(SubSeq(text, h + 1, Len(text)))

(* str::is_empty: the storage holds no byte *)
is_empty(text) == str_len(text) = 0

(* char::is_whitespace: the Unicode White_Space property *)
is_whitespace(c) ==
    \/ c \in 9..13
    \/ c \in {32, 133, 160, 5760, 8232, 8233, 8239, 8287, 12288}
    \/ c \in 8192..8202

-----------------------------------------------------------------------------
(* Pricing table: USD per 1K tokens, held in units of 10^-6 USD per 1K      *)
(* tokens (0.0005 is 500).                                                  *)

get_model_pricing ==
    [m \in {"gpt-3.5-turbo", "gpt-3.5-turbo-0125", "gpt-3.5-turbo-1106",
            "gpt-4", "gpt-4-0613",
            "gpt-4-turbo", "gpt-4-turbo-preview", "gpt-4-1106-preview",
            "gpt-4o", "gpt-4o-mini",
            "claude-3-opus", "claude-3-sonnet", "claude-3-haiku"} |->
        CASE m = "gpt-3.5-turbo"       -> [input |-> 500,   output |-> 1500]
          [] m = "gpt-3.5-turbo-0125"  -> [input |-> 500,   output |-> 1500]
          [] m = "gpt-3.5-turbo-1106"  -> [input |-> 1000,  output |-> 2000]
          [] m = "gpt-4"               -> [input |-> 30000, output |-> 60000]
          [] m = "gpt-4-0613"          -> [input |-> 30000, output |-> 60000]
          [] m = "gpt-4-turbo"         -> [input |-> 10000, output |-> 30000]
          [] m = "gpt-4-turbo-preview" -> [input |-> 10000, output |-> 30000]
          [] m = "gpt-4-1106-preview"  -> [input |-> 10000, output |-> 30000]
          [] m = "gpt-4o"              -> [input |-> 5000,  output |-> 15000]
          [] m = "gpt-4o-mini"         -> [input |-> 150,   output |-> 600]
          [] m = "claude-3-opus"       -> [input |-> 15000, output |-> 75000]
          [] m = "claude-3-sonnet"     -> [input |-> 3000,  output |-> 15000]
          [] m = "claude-3-haiku"      -> [input |-> 250,   output |-> 1250]]

(* HashMap::get *)
HashMapGet(map, key) == IF key \in DOMAIN map THEN Some(map[key]) ELSE None

-----------------------------------------------------------------------------
(* estimate_tokens *)

BaseEstimateFloor(char_count) == char_count \div 4

(* (char_count as f64 / 4.0).ceil() as u32 *)
base_estimate(char_count) == F64CeilToNat(F64DivNat(char_count, 4))

whitespace_count(text) == Cardinality({i \in 1..Len(text) : is_whitespace(text[i])})

(* 1.0 + (whitespace_count as f64 / char_count as f64) * 0.1 *)
whitespace_factor(ws, char_count) ==
    F64Add(F64One, F64Mul(F64DivNat(ws, char_count), F64Tenth))

estimate_tokens(text) ==
    IF is_empty(text) THEN 0
    ELSE LET char_count == Len(text)
             base == base_estimate(char_count)
             factor == whitespace_factor(whitespace_count(text), char_count)
         IN  F64CeilToNat(F64Mul(F64FromNat(base), factor))

-----------------------------------------------------------------------------
(* calculate_cost: amounts in units of 10^-9 USD.  Panicked stands for the  *)
(* panic of Option::unwrap on None.                                         *)

Panicked == -1

FallbackKeyTypo == "gpt-3.5"

(* the key of the default entry *)
FallbackKey == "gpt-3.5-turbo"

Round6(x) == ((x + 500) \div 1000) * 1000

(* (x * 100_000_000.0).round() / 100_000_000.0, x >= 0 *)
Round8(x) == ((x + 5) \div 10) * 10

CalculateCostSwapped(model, tokens_in, tokens_out) ==
    LET pricing == get_model_pricing
        found == HashMapGet(pricing, model)
        entry == IF IsSome(found) THEN found ELSE HashMapGet(pricing, FallbackKey)
    IN  IF ~IsSome(entry) THEN Panicked
        ELSE Round8(tokens_in * Unwrap(entry).output + tokens_out * Unwrap(entry).input)

CalculateCostMinus(model, tokens_in, tokens_out) ==
    LET pricing == get_model_pricing
        found == HashMapGet(pricing, model)
        entry == IF IsSome(found) THEN found ELSE HashMapGet(pricing, FallbackKey)
        diff == tokens_in * Unwrap(entry).input - tokens_out * Unwrap(entry).output
    IN  IF ~IsSome(entry) THEN Panicked
        ELSE Round8(IF diff < 0 THEN -diff ELSE diff)

calculate_cost(model, tokens_in, tokens_out) ==
    LET pricing == get_model_pricing
        found == HashMapGet(pricing, model)
        model_pricing == IF IsSome(found) THEN found
                         ELSE HashMapGet(pricing, FallbackKey)
    IN  IF ~IsSome(model_pricing) THEN Panicked
        ELSE LET input_cost == tokens_in * Unwrap(model_pricing).input
                 output_cost == tokens_out * Unwrap(model_pricing).output
             IN  Round8(input_cost + output_cost)

-----------------------------------------------------------------------------
(* Handlers.  A handler yields the response and the number of               *)
(* calculate_cost invocations it made.                                      *)

OK == 200

BAD_REQUEST == 400

default_model == "gpt-3.5-turbo"

health ==
    [resp |-> [status |-> OK,
               body |-> [status |-> "healthy", service |-> "token-counter",
                         version |-> "CARGO_PKG_VERSION"]],
     cost_calls |-> 0]

(* str::trim *)
trim(text) ==
    LET kept == {i \in 1..Len(text) : ~is_whitespace(text[i])}
        first == CHOOSE i \in kept : \A j \in kept : i <= j
        last == CHOOSE i \in kept : \A j \in kept : j <= i
    IN  IF kept = {} THEN <<>> ELSE SubSeq(text, first, last)

EstimateTokensHandlerTrim(r) ==
    IF is_empty(trim(r.text))
    THEN [resp |-> [status |-> BAD_REQUEST,
                    error |-> "text field is required and cannot be empty"],
          cost_calls |-> 0]
    ELSE [resp |-> [status |-> OK, tokens |-> estimate_tokens(r.text), model |-> r.model],
          cost_calls |-> 0]

estimate_tokens_handler(r) ==
    IF is_empty(r.text)
    THEN [resp |-> [status |-> BAD_REQUEST,
                    error |-> "text field is required and cannot be empty"],
          cost_calls |-> 0]
    ELSE LET tokens == estimate_tokens(r.text)
         IN  [resp |-> [status |-> OK, tokens |-> tokens, model |-> r.model],
              cost_calls |-> 0]

ResolveTokensTextFirst(count, text) ==
    IF IsSome(text) THEN estimate_tokens(Unwrap(text))
    ELSE IF IsSome(count) THEN Unwrap(count)
    ELSE 0

(* match (req.tokens_in, &req.input_text) and its twin for the output side *)
resolve_tokens(count, text) ==
    IF IsSome(count) THEN Unwrap(count)
    ELSE IF IsSome(text) THEN estimate_tokens(Unwrap(text))
    ELSE 0

EstimateCostHandlerPresence(r) ==
    LET tokens_in == resolve_tokens(r.tokens_in, r.input_text)
        tokens_out == resolve_tokens(r.tokens_out, r.output_text)
    IN  IF /\ ~IsSome(r.tokens_in) /\ ~IsSome(r.input_text)
           /\ ~IsSome(r.tokens_out) /\ ~IsSome(r.output_text)
        THEN [resp |-> [status |-> BAD_REQUEST,
                        error |-> "At least one of tokens_in, input_text, tokens_out, or output_text is required"],
              cost_calls |-> 0]
        ELSE [resp |-> [status |-> OK, tokens_in |-> tokens_in, tokens_out |-> tokens_out,
                        cost_usd |-> calculate_cost(r.model, tokens_in, tokens_out),
                        model |-> r.model],
              cost_calls |-> 1]

estimate_cost_handler(r) ==
    LET tokens_in == resolve_tokens(r.tokens_in, r.input_text)
        tokens_out == resolve_tokens(r.tokens_out, r.output_text)
    IN  IF tokens_in = 0 /\ tokens_out = 0
        THEN [resp |-> [status |-> BAD_REQUEST,
                        error |-> "At least one of tokens_in, input_text, tokens_out, or output_text is required"],
              cost_calls |-> 0]
        ELSE LET cost == calculate_cost(r.model, tokens_in, tokens_out)
             IN  [resp |-> [status |-> OK, tokens_in |-> tokens_in,
                            tokens_out |-> tokens_out, cost_usd |-> cost,
                            model |-> r.model],
                  cost_calls |-> 1]

(* the UTF-8 bytes of the keys of the pricing table *)
Utf8 ==
    "gpt-3.5-turbo" :> <<103, 112, 116, 45, 51, 46, 53, 45, 116, 117, 114, 98, 111>> @@
    "gpt-3.5-turbo-0125" :> <<103, 112, 116, 45, 51, 46, 53, 45, 116, 117, 114, 98, 111, 45, 48, 49, 50, 53>> @@
    "gpt-3.5-turbo-1106" :> <<103, 112, 116, 45, 51, 46, 53, 45, 116, 117, 114, 98, 111, 45, 49, 49, 48, 54>> @@
    "gpt-4" :> <<103, 112, 116, 45, 52>> @@
    "gpt-4-0613" :> <<103, 112, 116, 45, 52, 45, 48, 54, 49, 51>> @@
    "gpt-4-turbo" :> <<103, 112, 116, 45, 52, 45, 116, 117, 114, 98, 111>> @@
    "gpt-4-turbo-preview" :> <<103, 112, 116, 45, 52, 45, 116, 117, 114, 98, 111, 45, 112, 114, 101, 118, 105, 101, 119>> @@
    "gpt-4-1106-preview" :> <<103, 112, 116, 45, 52, 45, 49, 49, 48, 54, 45, 112, 114, 101, 118, 105, 101, 119>> @@
    "gpt-4o" :> <<103, 112, 116, 45, 52, 111>> @@
    "gpt-4o-mini" :> <<103, 112, 116, 45, 52, 111, 45, 109, 105, 110, 105>> @@
    "claude-3-opus" :> <<99, 108, 97, 117, 100, 101, 45, 51, 45, 111, 112, 117, 115>> @@
    "claude-3-sonnet" :> <<99, 108, 97, 117, 100, 101, 45, 51, 45, 115, 111, 110, 110, 101, 116>> @@
    "claude-3-haiku" :> <<99, 108, 97, 117, 100, 101, 45, 51, 45, 104, 97, 105, 107, 117>>

(* Ord for [u8]: lexicographic, a proper prefix first *)
RECURSIVE BytesLess(_, _)
BytesLess(a, b) ==
    IF b = <<>> THEN FALSE
    ELSE IF a = <<>> THEN TRUE
    ELSE IF Head(a) # Head(b) THEN Head(a) < Head(b)
    ELSE BytesLess(Tail(a), Tail(b))

(* Ord for &str: the order of the UTF-8 bytes *)
StrLess(a, b) == BytesLess(Utf8[a], Utf8[b])

RECURSIVE SortedDescending(_)
SortedDescending(S) ==
    IF S = {} THEN <<>>
    ELSE LET max == CHOOSE x \in S : \A y \in S \ {x} : StrLess(y, x)
         IN  <<max>> \o SortedDescending(S \ {max})

(* collect() of the keys followed by sort(): the outcome does not depend on *)
(* the HashMap's iteration order                                            *)
RECURSIVE Sorted(_)
Sorted(S) ==
    IF S = {} THEN <<>>
    ELSE LET min == CHOOSE x \in S : \A y \in S \ {x} : StrLess(x, y)
         IN  <<min>> \o Sorted(S \ {min})

list_models ==
    LET pricing == get_model_pricing
    IN  [resp |-> [status |-> OK, body |-> Sorted(DOMAIN pricing)], cost_calls |-> 0]

-----------------------------------------------------------------------------
(* Inputs *)

MaxLen == 3

MaxCostLen == 1

MaxTokens == 1

(* 'a', ' ' and the two-byte U+00E9 *)
Alphabet == {97, 32, 233}

TextsUpTo(n) == UNION {[1..k -> Alphabet] : k \in 0..n}

Hello == <<72, 101, 108, 108, 111>>

(* "The quick brown fox jumps over the lazy dog" *)
Sentence ==
    <<84, 104, 101, 32, 113, 117, 105, 99, 107, 32, 98, 114, 111, 119, 110, 32,
      102, 111, 120, 32, 106, 117, 109, 112, 115, 32, 111, 118, 101, 114, 32,
      116, 104, 101, 32, 108, 97, 122, 121, 32, 100, 111, 103>>

(* "ab " forty times: 120 chars, 40 of them whitespace *)
Words40 == [i \in 1..120 |-> IF i % 3 = 0 THEN 32 ELSE 96 + (i % 3)]

(* "abcd" after 80 spaces: 84 chars *)
Indented84 == [i \in 1..84 |-> IF i <= 80 THEN 32 ELSE 16 + i]

Texts == TextsUpTo(MaxLen) \cup {Hello, Sentence, Words40, Indented84}

CostTexts == TextsUpTo(MaxCostLen)

TokenCounts == 0..MaxTokens

TestTokenCounts == TokenCounts \cup {500, 1000}

ModelIds == DOMAIN get_model_pricing \cup {"unknown-model", "GPT-4"}

Option(S) == {None} \cup {Some(x) : x \in S}

(* #[serde(default = "default_model")] *)
ModelOrDefault(model) == IF IsSome(model) THEN Unwrap(model) ELSE default_model

TokenEstimateRequest(text, model) ==
    [op |-> "tokens", text |-> text, model |-> ModelOrDefault(model)]

CostEstimateRequest(input_text, tokens_in, output_text, tokens_out, model) ==
    [op |-> "cost", input_text |-> input_text, tokens_in |-> tokens_in,
     output_text |-> output_text, tokens_out |-> tokens_out,
     model |-> ModelOrDefault(model)]

NoReq == [op |-> "none"]

NoResp == [status |-> 0]

-----------------------------------------------------------------------------
(* The server: a request is routed to its handler, handled, and answered.   *)

Init ==
    /\ pc = "idle"
    /\ req = NoReq
    /\ resp = NoResp
    /\ cost_calls = 0

(* axum hands the deserialized request to the handler of its route *)
Receive(r) ==
    /\ pc' = "handling"
    /\ req' = r
    /\ UNCHANGED <<resp, cost_calls>>

GetHealth == pc = "idle" /\ Receive([op |-> "health"])

GetModels == pc = "idle" /\ Receive([op |-> "models"])

PostTokens ==
    /\ pc = "idle"
    /\ \E text \in Texts, model \in Option(ModelIds) :
          Receive(TokenEstimateRequest(text, model))

PostCost ==
    /\ pc = "idle"
    /\ \E input_text \in Option(CostTexts), tokens_in \in Option(TokenCounts),
          output_text \in Option(CostTexts), tokens_out \in Option(TokenCounts),
          model \in Option(ModelIds) :
          Receive(CostEstimateRequest(input_text, tokens_in, output_text, tokens_out, model))

Health ==
    /\ pc = "handling"
    /\ req.op = "health"
    /\ pc' = "done"
    /\ resp' = health.resp
    /\ cost_calls' = health.cost_calls
    /\ UNCHANGED req

EstimateTokensHandler ==
    /\ pc = "handling"
    /\ req.op = "tokens"
    /\ pc' = "done"
    /\ LET out == estimate_tokens_handler(req)
       IN  resp' = out.resp /\ cost_calls' = out.cost_calls
    /\ UNCHANGED req

EstimateCostHandler ==
    /\ pc = "handling"
    /\ req.op = "cost"
    /\ pc' = "done"
    /\ LET out == estimate_cost_handler(req)
       IN  resp' = out.resp /\ cost_calls' = out.cost_calls
    /\ UNCHANGED req

ListModels ==
    /\ pc = "handling"
    /\ req.op = "models"
    /\ pc' = "done"
    /\ resp' = list_models.resp
    /\ cost_calls' = list_models.cost_calls
    /\ UNCHANGED req

(* the response is written back and the server awaits the next request *)
Respond ==
    /\ pc = "done"
    /\ pc' = "idle"
    /\ req' = NoReq
    /\ resp' = NoResp
    /\ cost_calls' = 0

(* The unit tests call the two pure functions directly: estimate_tokens on  *)
(* a text, and calculate_cost twice, the results being compared.            *)

TestEstimateTokens ==
    /\ pc = "idle"
    /\ \E text \in Texts :
          /\ req' = [op |-> "estimate_tokens", text |-> text]
          /\ resp' = [tokens |-> estimate_tokens(text)]
    /\ pc' = "done"
    /\ UNCHANGED cost_calls

TestCalculateCost ==
    /\ pc = "idle"
    /\ \E model \in ModelIds, tokens_in \in TestTokenCounts, tokens_out \in TestTokenCounts,
          tokens_in2 \in TestTokenCounts, tokens_out2 \in TestTokenCounts :
          \E model2 \in {model, default_model} :
             /\ req' = [op |-> "calculate_cost", model |-> model,
                        tokens_in |-> tokens_in, tokens_out |-> tokens_out,
                        model2 |-> model2,
                        tokens_in2 |-> tokens_in2, tokens_out2 |-> tokens_out2]
             /\ resp' = [cost |-> calculate_cost(model, tokens_in, tokens_out),
                         cost2 |-> calculate_cost(model2, tokens_in2, tokens_out2)]
    /\ pc' = "done"
    /\ cost_calls' = 2

Next ==
    \/ GetHealth
    \/ GetModels
    \/ PostTokens
    \/ PostCost
    \/ Health
    \/ EstimateTokensHandler
    \/ EstimateCostHandler
    \/ ListModels
    \/ Respond
    \/ TestEstimateTokens
    \/ TestCalculateCost

Spec == Init /\ [][Next]_vars

-----------------------------------------------------------------------------
(* Properties *)

CostDone == pc = "done" /\ req.op = "cost"

TokensDone == pc = "done" /\ req.op = "tokens"

ModelsDone == pc = "done" /\ req.op = "models"

EstimateCalled == pc = "done" /\ req.op = "estimate_tokens"

CostCalled == pc = "done" /\ req.op = "calculate_cost"

(* the resolution rule of the specification, for one side *)
ResolvedCount(count, text) ==
    CASE IsSome(count) -> Unwrap(count)
      [] ~IsSome(count) /\ IsSome(text) -> estimate_tokens(Unwrap(text))
      [] OTHER -> 0

(* the entry the specification prices a model with *)
EntryOf(model) ==
    IF model \in DOMAIN get_model_pricing THEN get_model_pricing[model]
    ELSE get_model_pricing["gpt-3.5-turbo"]

(* ceil(ceil(n / 4) * (1 + (w / n) * 0.1)) in exact arithmetic, 0 for the   *)
(* empty text                                                               *)
ExactEstimate(text) ==
    IF text = <<>> THEN 0
    ELSE LET n == Len(text)
             w == Cardinality({i \in 1..n : is_whitespace(text[i])})
             base == (n + 3) \div 4
         IN  (base * (10 * n + w) + 10 * n - 1) \div (10 * n)

(* C1: an estimateCost request is rejected with a client error if and only  *)
(* if both resolved counts are 0; a rejected request has had no cost        *)
(* computed; every other request succeeds with the resolved counts and the  *)
(* cost of these counts, computed once.                                     *)
C1_RejectedIffBothZero ==
    CostDone =>
        LET tin == ResolvedCount(req.tokens_in, req.input_text)
            tout == ResolvedCount(req.tokens_out, req.output_text)
        IN  /\ (resp.status = BAD_REQUEST) <=> (tin = 0 /\ tout = 0)
            /\ resp.status = BAD_REQUEST => cost_calls = 0
            /\ resp.status # BAD_REQUEST =>
                  /\ resp.status = OK
                  /\ resp.tokens_in = tin
                  /\ resp.tokens_out = tout
                  /\ cost_calls = 1
                  /\ resp.cost_usd = calculate_cost(req.model, tin, tout)

(* a request rejected although it carries tokens_in (0) and a non-empty     *)
(* input text, its output side resolving to 0 through an empty text         *)
C1_Witness ==
    /\ CostDone
    /\ resp.status = BAD_REQUEST
    /\ req.tokens_in = Some(0)
    /\ req.input_text = Some(<<97>>)
    /\ req.tokens_out = None
    /\ req.output_text = Some(<<>>)
    /\ cost_calls = 0

(* C2: each side of an estimateCost request is resolved from its own two    *)
(* fields: a supplied count is used verbatim (0 included, text ignored),    *)
(* otherwise a supplied text gives estimate(text), otherwise the count is 0 *)
C2_SideResolution ==
    CostDone /\ resp.status = OK =>
        /\ IsSome(req.tokens_in) => resp.tokens_in = Unwrap(req.tokens_in)
        /\ ~IsSome(req.tokens_in) /\ IsSome(req.input_text) =>
              resp.tokens_in = estimate_tokens(Unwrap(req.input_text))
        /\ ~IsSome(req.tokens_in) /\ ~IsSome(req.input_text) => resp.tokens_in = 0
        /\ IsSome(req.tokens_out) => resp.tokens_out = Unwrap(req.tokens_out)
        /\ ~IsSome(req.tokens_out) /\ IsSome(req.output_text) =>
              resp.tokens_out = estimate_tokens(Unwrap(req.output_text))
        /\ ~IsSome(req.tokens_out) /\ ~IsSome(req.output_text) => resp.tokens_out = 0

(* tokens_in = 0 with a text that would estimate to 1, the output side      *)
(* estimated from a one-space text                                          *)
C2_Witness ==
    /\ CostDone
    /\ resp.status = OK
    /\ req.tokens_in = Some(0)
    /\ req.input_text = Some(<<97>>)
    /\ req.tokens_out = None
    /\ req.output_text = Some(<<32>>)
    /\ resp.tokens_in = 0
    /\ resp.tokens_out = 2

(* C3: calculate_cost never fails, and for a model identifier that is not   *)
(* an exact key of the pricing table it returns what it returns for         *)
(* "gpt-3.5-turbo" on the same token counts.                                *)
C3_UnknownModelFallsBack ==
    /\ CostCalled =>
          /\ resp.cost # Panicked
          /\ resp.cost2 # Panicked
          /\ (/\ req.model \notin DOMAIN get_model_pricing
              /\ req.model2 = "gpt-3.5-turbo"
              /\ req.tokens_in2 = req.tokens_in
              /\ req.tokens_out2 = req.tokens_out) => resp.cost = resp.cost2
    /\ CostDone /\ resp.status = OK => resp.cost_usd # Panicked

(* "GPT-4" differs from the key "gpt-4" by case only and is priced as       *)
(* gpt-3.5-turbo                                                            *)
C3_Witness ==
    /\ CostCalled
    /\ req.model = "GPT-4"
    /\ req.model2 = "gpt-3.5-turbo"
    /\ req.tokens_in = 1000 /\ req.tokens_in2 = 1000
    /\ req.tokens_out = 500 /\ req.tokens_out2 = 500
    /\ resp.cost = 1250000
    /\ resp.cost2 = 1250000

(* C4: estimate(text) is 0 for the empty text and otherwise                 *)
(* ceil(ceil(n / 4) * (1 + (w / n) * 0.1)) for n chars of which w are       *)
(* whitespace; estimate("Hello") is in 1..3 and the estimate of the         *)
(* 43-character sentence is in 8..15.                                       *)
C4_EstimateFormula ==
    EstimateCalled =>
        /\ resp.tokens = ExactEstimate(req.text)
        /\ req.text = Hello => resp.tokens \in 1..3
        /\ req.text = Sentence => Len(req.text) = 43 /\ resp.tokens \in 8..15

(* C5: calculate_cost returns (tokensIn / 1000) * input_rate +              *)
(* (tokensOut / 1000) * output_rate of the looked-up entry rounded to 8     *)
(* decimal places: a multiple of 10^-8 USD within half of 10^-8 USD of the  *)
(* exact sum; 0.00125 USD for gpt-3.5-turbo and 0.06 USD for gpt-4 on 1000  *)
(* input and 500 output tokens.                                             *)
C5_CostFormula ==
    CostCalled =>
        LET exact == req.tokens_in * EntryOf(req.model).input
                       + req.tokens_out * EntryOf(req.model).output
        IN  /\ resp.cost % 10 = 0
            /\ resp.cost - exact \in -5..5
            /\ (req.tokens_in = 1000 /\ req.tokens_out = 500) =>
                  /\ req.model = "gpt-3.5-turbo" => resp.cost = 1250000
                  /\ req.model = "gpt-4" => resp.cost = 60000000

C5_Witness ==
    /\ CostCalled
    /\ req.model = "gpt-4"
    /\ req.tokens_in = 1000
    /\ req.tokens_out = 500
    /\ resp.cost = 60000000

(* C6: an estimateTokens request is rejected with a client error if and     *)
(* only if its text is empty; a successful response carries                 *)
(* estimate(text) and the request's model id; estimate_tokens called        *)
(* directly on the empty text returns 0.                                    *)
C6_TokensRejectedIffEmpty ==
    /\ TokensDone =>
          /\ resp.status \in {OK, BAD_REQUEST}
          /\ (resp.status = BAD_REQUEST) <=> (req.text = <<>>)
          /\ resp.status = OK =>
                /\ resp.tokens = estimate_tokens(req.text)
                /\ resp.tokens >= 1
                /\ resp.model = req.model
    /\ EstimateCalled /\ req.text = <<>> => resp.tokens = 0

(* a text of one space is accepted *)
C6_Witness ==
    /\ TokensDone
    /\ req.text = <<32>>
    /\ req.model = "GPT-4"
    /\ resp.status = OK
    /\ resp.tokens = 2
    /\ resp.model = "GPT-4"

(* C7: for a fixed model, calculate_cost does not decrease when the input   *)
(* count grows with the output count fixed, nor when the output count       *)
(* grows with the input count fixed.                                        *)
C7_CostMonotone ==
    CostCalled /\ req.model = req.model2 =>
        /\ (req.tokens_in <= req.tokens_in2 /\ req.tokens_out = req.tokens_out2)
              => resp.cost <= resp.cost2
        /\ (req.tokens_in = req.tokens_in2 /\ req.tokens_out <= req.tokens_out2)
              => resp.cost <= resp.cost2

C7_Witness ==
    /\ CostCalled
    /\ req.model = "unknown-model"
    /\ req.model2 = "unknown-model"
    /\ req.tokens_in = 1 /\ req.tokens_in2 = 1000
    /\ req.tokens_out = 500 /\ req.tokens_out2 = 500
    /\ resp.cost < resp.cost2

(* C8: for a non-empty text of n chars, estimate(text) >= ceil(n / 4)       *)
C8_EstimateAtLeastBase ==
    /\ EstimateCalled /\ req.text # <<>> => 4 * resp.tokens >= Len(req.text)
    /\ TokensDone /\ resp.status = OK => 4 * resp.tokens >= Len(req.text)

(* a text of whitespace only: the factor is at its largest *)
C8_Witness ==
    /\ EstimateCalled
    /\ req.text = <<32, 32, 32>>
    /\ resp.tokens = 2

(* C9: listModels succeeds with the keys of the pricing table, each once,   *)
(* in ascending byte-wise lexicographic order; "gpt-3.5-turbo" is among     *)
(* them.                                                                    *)
C9_ModelsSorted ==
    ModelsDone =>
        /\ resp.status = OK
        /\ resp.body = <<"claude-3-haiku", "claude-3-opus", "claude-3-sonnet",
                         "gpt-3.5-turbo", "gpt-3.5-turbo-0125", "gpt-3.5-turbo-1106",
                         "gpt-4", "gpt-4-0613", "gpt-4-1106-preview", "gpt-4-turbo",
                         "gpt-4-turbo-preview", "gpt-4o", "gpt-4o-mini">>
        /\ {resp.body[i] : i \in 1..Len(resp.body)} = DOMAIN get_model_pricing
        /\ Len(resp.body) = Cardinality(DOMAIN get_model_pricing)
        /\ \A i, j \in 1..Len(resp.body) : i < j => StrLess(resp.body[i], resp.body[j])
        /\ \E i \in 1..Len(resp.body) : resp.body[i] = "gpt-3.5-turbo"

C9_Witness ==
    /\ ModelsDone
    /\ Len(resp.body) = 13
    /\ resp.body[1] = "claude-3-haiku"
    /\ resp.body[4] = "gpt-3.5-turbo"
    /\ resp.body[13] = "gpt-4o-mini"

(* C10: an estimateCost request that passes the validation gate returns a   *)
(* cost of at least 10^-8 USD; so does calculate_cost on counts that are    *)
(* not both 0, for every model id.                                          *)
C10_CostPositive ==
    /\ CostDone /\ resp.status = OK => resp.cost_usd >= 10
    /\ CostCalled /\ ~(req.tokens_in = 0 /\ req.tokens_out = 0) => resp.cost >= 10

(* one input token of the cheapest model: 0.00000015 USD *)
C10_Witness ==
    /\ CostDone
    /\ resp.status = OK
    /\ req.model = "gpt-4o-mini"
    /\ resp.tokens_in = 1
    /\ resp.tokens_out = 0
    /\ resp.cost_usd = 150

=============================================================================
